---- MODULE Spec2Model ----
(***************************************************************************)
(* Model of the ordering and date-range logic of memory-lane:              *)
(* eventService (events and images) and memoryLaneService (lanes), over a  *)
(* repository of three tables: memory_lanes, events, images.               *)
(***************************************************************************)
EXTENDS Integers, Sequences, FiniteSets, TLC

\* ---------------------------------------------------------------- bounds
MaxEvents == 2
MaxImages == 3
MaxPos == 2
MaxDate == 2
MaxBatch == 1
MaxImagePos == 4
MaxAppends == 3

LaneIds == {1, 2}
UserIds == {1, 2}
\* event ids: enough for the longest run of appends
EventIds == 1..MaxAppends
ImageIds == 1..MaxImages
Positions == 0..MaxPos
\* event_date values: calendar days "YYYY-MM-DD", numbered chronologically
Dates == 1..MaxDate

\* SQL NULL / JS null or undefined, and a present value
Null == <<>>
Some(v) == <<v>>
Val(o) == o[1]

VARIABLES lanes, events, images, last, users, auth, route, view, storage, calls
\* the state outside the lanes, events and images tables
clientVars == <<users, auth, route, view, storage, calls>>
vars == <<lanes, events, images, last, users, auth, route, view, storage, calls>>

\* ------------------------------------------------------------ primitives
\* uuidv4(): an id no row of the table holds
NewId(ids, used) == CHOOSE i \in ids \ used : \A j \in ids \ used : i <= j

\* new Date(event_date): the instant of a date-only string is UTC midnight
\* of that day
NewDate(s) == [day |-> s, hours |-> 0]

\* Date.prototype.getTime(): instants at midnight compare by their day
getTime(dt) == dt.day

\* Date.prototype.toISOString(): the full ISO timestamp of the instant
toISOString(dt) == [date |-> dt.day, time |-> "T00:00:00.000Z"]

\* the dates left in the order they were fetched
Unsorted(s) == s

\* Array.prototype.sort((a, b) => a.getTime() - b.getTime()), as insertion sort
RECURSIVE sortDates(_)
InsertDate(d, s) ==
  LET k == Cardinality({i \in 1..Len(s) : getTime(s[i]) <= getTime(d)})
  IN SubSeq(s, 1, k) \o <<d>> \o SubSeq(s, k + 1, Len(s))
sortDates(s) ==
  IF s = <<>> THEN <<>> ELSE InsertDate(s[Len(s)], sortDates(SubSeq(s, 1, Len(s) - 1)))

\* .order('order_position', { ascending: true }) over a set of row ids of table t
RECURSIVE orderAscending(_, _)
orderAscending(t, ids) ==
  IF ids = {} THEN <<>>
  ELSE LET m == CHOOSE i \in ids : \A j \in ids :
                  t[i].order_position <= t[j].order_position
       IN <<m>> \o orderAscending(t, ids \ {m})

\* ------------------------------------------------------ memoryLaneService
\* getMemoryLaneById
getMemoryLaneById(lns, id) ==
  IF id \in DOMAIN lns /\ ~lns[id].deleted_at THEN Some(lns[id]) ELSE Null

\* a query that leaves out the deleted_at filter
EventsOfLane(evs, memoryLaneId) ==
  {e \in DOMAIN evs : evs[e].memory_lane_id = memoryLaneId}

\* getMemoryLaneEvents: ids of the lane's events, deleted_at null, by position
LiveEvents(evs, memoryLaneId) ==
  {e \in DOMAIN evs : evs[e].memory_lane_id = memoryLaneId /\ ~evs[e].deleted_at}
getMemoryLaneEvents(evs, memoryLaneId) ==
  orderAscending(evs, LiveEvents(evs, memoryLaneId))

\* updateMemoryLane: .update(updates).eq('id', id).is('deleted_at', null)
updateMemoryLane(lns, id, start, end) ==
  [l \in DOMAIN lns |->
     IF l = id /\ ~lns[l].deleted_at
     THEN [lns[l] EXCEPT !.date_range_start = start, !.date_range_end = end]
     ELSE lns[l]]

\* the bounds updateDateRange computes from the events it fetched
dateRangeOf(evs, memoryLaneId) ==
  LET fetched == getMemoryLaneEvents(evs, memoryLaneId)
      eventDates ==
        sortDates([i \in 1..Len(fetched) |-> NewDate(evs[fetched[i]].event_date)])
  IN IF Len(fetched) = 0
     THEN [start |-> Null, end |-> Null]
     ELSE [start |-> Some(toISOString(eventDates[1])),
           end |-> Some(toISOString(eventDates[Len(eventDates)]))]

\* a recomputation that returns the range the lane held before the write
updateDateRangeStale(lns, evs, memoryLaneId, fail) ==
  LET r == dateRangeOf(evs, memoryLaneId)
  IN IF fail \in {"udrRead", "udrWrite"}
     THEN [lanes |-> lns, threw |-> TRUE, ret |-> Null]
     ELSE [lanes |-> updateMemoryLane(lns, memoryLaneId, r.start, r.end),
           threw |-> FALSE,
           ret |-> Some([start |-> lns[memoryLaneId].date_range_start,
                         end |-> lns[memoryLaneId].date_range_end])]

\* updateDateRange: fail is the round trip that fails ("udrRead", "udrWrite")
\* or anything else for none; yields the lanes table, the returned value and
\* whether the call threw
updateDateRange(lns, evs, memoryLaneId, fail) ==
  LET r == dateRangeOf(evs, memoryLaneId)
  IN IF fail \in {"udrRead", "udrWrite"}
     THEN [lanes |-> lns, threw |-> TRUE, ret |-> Null]
     ELSE [lanes |-> updateMemoryLane(lns, memoryLaneId, r.start, r.end),
           threw |-> FALSE, ret |-> Some(r)]

\* ------------------------------------------- memoryLaneService: formatting
\* date strings "YYYY-MM-DD" as calendar days, and the offsets (hours east of
\* UTC) of the time zones the page may run in
Years == {2022, 2023}
Months == {1, 2, 11, 12}
CalendarDays == [year : Years, month : Months, day : {1, 15}]
TimeZoneOffsets == {-5, 0, 5}

MonthNames ==
  <<"January", "February", "March", "April", "May", "June", "July", "August",
    "September", "October", "November", "December">>

\* a word of a formatted string: a piece of text or a number
Word(s, n) == [s |-> s, n |-> n]

\* the local calendar month in which the instant dt (UTC midnight of dt.day)
\* falls, in the zone tz hours east of UTC: west of UTC it is still the day
\* before
localMonth(dt, tz) ==
  LET d == dt.day
  IN IF tz >= 0 \/ d.day > 1 THEN [year |-> d.year, month |-> d.month]
     ELSE IF d.month > 1 THEN [year |-> d.year, month |-> d.month - 1]
     ELSE [year |-> d.year - 1, month |-> 12]

\* Date.prototype.getFullYear(), getMonth(): fields of the local time
getFullYear(dt, tz) == localMonth(dt, tz).year
getMonth(dt, tz) == localMonth(dt, tz).month - 1

\* toLocaleDateString('en-US', { month: 'long' [, year: 'numeric'] })
toLocaleDateString(dt, tz, year) ==
  <<Word(MonthNames[getMonth(dt, tz) + 1], 0)>>
    \o (IF year THEN <<Word("", getFullYear(dt, tz))>> ELSE <<>>)

\* formatDateRange(startDate, endDate), run in the zone tz
formatDateRange(startDate, endDate, tz) ==
  IF startDate = Null THEN <<Word("No events yet", 0)>>
  ELSE LET start == NewDate(Val(startDate))
           end == IF endDate # Null THEN NewDate(Val(endDate)) ELSE start
       IN IF getFullYear(start, tz) = getFullYear(end, tz)
             /\ getMonth(start, tz) = getMonth(end, tz)
          THEN toLocaleDateString(start, tz, TRUE)
          ELSE IF getFullYear(start, tz) = getFullYear(end, tz)
          THEN toLocaleDateString(start, tz, FALSE) \o <<Word("-", 0)>>
                 \o toLocaleDateString(end, tz, TRUE)
          ELSE toLocaleDateString(start, tz, TRUE) \o <<Word("-", 0)>>
                 \o toLocaleDateString(end, tz, TRUE)

\* ------------------------------------------------------------ eventService
\* a lookup without the deleted_at filter
getEventByIdAnyRow(evs, id) ==
  IF id \in DOMAIN evs THEN Some(evs[id]) ELSE Null

\* getEventById
getEventById(evs, id) ==
  IF id \in DOMAIN evs /\ ~evs[id].deleted_at THEN Some(evs[id]) ELSE Null

\* a position taken from the number of siblings rather than their maximum
appendPositionByCount(evs, memoryLaneId) ==
  Cardinality({e \in DOMAIN evs :
                 evs[e].memory_lane_id = memoryLaneId /\ ~evs[e].deleted_at}) + 1

\* a maximum read without the deleted_at filter
appendPositionAmongAll(evs, memoryLaneId) ==
  LET maxOrderData == {e \in DOMAIN evs : evs[e].memory_lane_id = memoryLaneId}
  IN IF maxOrderData # {}
     THEN 1 + (CHOOSE p \in {evs[e].order_position : e \in maxOrderData} :
                 \A e \in maxOrderData : evs[e].order_position <= p)
     ELSE 1

\* createEvent lines 36-52: the position stored for the new event
appendPosition(evs, memoryLaneId) ==
  LET maxOrderData ==
        {e \in DOMAIN evs : evs[e].memory_lane_id = memoryLaneId /\ ~evs[e].deleted_at}
  IN IF maxOrderData # {}
     THEN 1 + (CHOOSE p \in {evs[e].order_position : e \in maxOrderData} :
                 \A e \in maxOrderData : evs[e].order_position <= p)
     ELSE 1
createPosition(evs, event) ==
  IF event.order_position = Null \/ event.order_position = Some(0)
  THEN appendPosition(evs, event.memory_lane_id)
  ELSE Val(event.order_position)

\* a recomputation whose error reaches the caller
rethrow(u) == IF u.threw THEN "error" ELSE "ok"

\* createEvent lines 69-74, updateEvent lines 106-111, deleteEvent lines
\* 138-143: the catch around updateDateRange logs and does not rethrow
swallow(u) == "ok"

\* a recomputation that is never asked for
recomputeNever(updates) == FALSE

\* updateEvent line 105: if (updates.event_date)
recomputeNeeded(updates) == updates.event_date # Null

\* the last call as its caller sees it, and the recomputations it made:
\*   outcome  "ok" (resolved), "error" (rejected with a repository error) or
\*            "not_found" (rejected with Error('Event not found'))
\*   ret      the row the call resolved with, named by its id
\*   range    the { start, end } the call resolved with
\*   udr      the lanes updateDateRange was invoked for, in order
\*   udrThrew whether that updateDateRange threw
Call(op, outcome, ret, udr, udrThrew) ==
  [op |-> op, outcome |-> outcome, ret |-> ret, range |-> Null,
   udr |-> udr, udrThrew |-> udrThrew]

\* createEvent(event): event = [memory_lane_id, event_date, order_position]
\* with order_position Null when the caller gives none; fail names the round
\* trip that fails: "maxOrder", "insert", "udrRead", "udrWrite", or "none"
createEvent(lns, evs, event, fail) ==
  LET id == NewId(EventIds, DOMAIN evs)
      isAppend == event.order_position = Null \/ event.order_position = Some(0)
      row == [memory_lane_id |-> event.memory_lane_id,
              event_date |-> event.event_date,
              order_position |-> createPosition(evs, event),
              deleted_at |-> FALSE]
      inserted == [e \in DOMAIN evs \cup {id} |-> IF e = id THEN row ELSE evs[e]]
      u == updateDateRange(lns, inserted, event.memory_lane_id, fail)
  IN IF (isAppend /\ fail = "maxOrder") \/ fail = "insert"
     THEN [lanes |-> lns, events |-> evs,
           call |-> Call("createEvent", "error", Null, <<>>, FALSE)]
     ELSE [lanes |-> u.lanes, events |-> inserted,
           call |-> Call("createEvent", swallow(u), Some(id),
                         <<event.memory_lane_id>>, u.threw)]

\* createEvent as a caller runs it, one round trip at a time: pc names the
\* await the call is suspended at ("idle": not in a call), position the
\* order_position it computed, siblings the rows its maxOrder query ran over,
\* id the row it inserted (0: none yet), range the bounds its updateDateRange
\* computed
Callers == {1, 2}
IdleCall ==
  [pc |-> "idle", event |-> Null, position |-> 0, siblings |-> {}, id |-> 0,
   range |-> [start |-> Null, end |-> Null]]

\* an insert that takes the maximum again as it writes
insertedPositionAtInsert(position, evs, memoryLaneId) ==
  appendPosition(evs, memoryLaneId)

\* createEvent lines 54-64: the insert stores the event.order_position set
\* after the maxOrder query
insertedPosition(position, evs, memoryLaneId) == position

\* a write that takes the bounds of the events as it writes
writtenRangeAtWrite(range, evs, memoryLaneId) == dateRangeOf(evs, memoryLaneId)

\* updateDateRange lines 194-197: the bounds written are those of the events
\* fetched at line 176
writtenRange(range, evs, memoryLaneId) == range

\* .update({...updates}): updates = [event_date, order_position, memory_lane_id],
\* each Null when the caller leaves the field out
applyUpdates(row, updates) ==
  [row EXCEPT
     !.event_date = IF updates.event_date = Null THEN @ ELSE Val(updates.event_date),
     !.order_position =
        IF updates.order_position = Null THEN @ ELSE Val(updates.order_position),
     !.memory_lane_id =
        IF updates.memory_lane_id = Null THEN @ ELSE Val(updates.memory_lane_id)]

\* updateEvent(id, updates); fail: "get", "update", "udrRead", "udrWrite", "none"
updateEvent(lns, evs, id, updates, fail) ==
  LET currentEvent == getEventById(evs, id)
      updated == [e \in DOMAIN evs |->
                    IF e = id /\ ~evs[e].deleted_at
                    THEN applyUpdates(evs[e], updates) ELSE evs[e]]
      lane == Val(currentEvent).memory_lane_id
      u == updateDateRange(lns, updated, lane, fail)
  IN IF fail = "get"
     THEN [lanes |-> lns, events |-> evs,
           call |-> Call("updateEvent", "error", Null, <<>>, FALSE)]
     ELSE IF currentEvent = Null
     THEN [lanes |-> lns, events |-> evs,
           call |-> Call("updateEvent", "not_found", Null, <<>>, FALSE)]
     ELSE IF fail = "update"
     THEN [lanes |-> lns, events |-> evs,
           call |-> Call("updateEvent", "error", Null, <<>>, FALSE)]
     ELSE IF recomputeNeeded(updates)
     THEN [lanes |-> u.lanes, events |-> updated,
           call |-> Call("updateEvent", swallow(u), Some(id), <<lane>>, u.threw)]
     ELSE [lanes |-> lns, events |-> updated,
           call |-> Call("updateEvent", "ok", Some(id), <<>>, FALSE)]

\* deleteEvent(id); fail: "get", "update", "udrRead", "udrWrite", "none"
deleteEvent(lns, evs, id, fail) ==
  LET currentEvent == getEventById(evs, id)
      updated == [e \in DOMAIN evs |->
                    IF e = id THEN [evs[e] EXCEPT !.deleted_at = TRUE] ELSE evs[e]]
      lane == Val(currentEvent).memory_lane_id
      u == updateDateRange(lns, updated, lane, fail)
  IN IF fail = "get"
     THEN [lanes |-> lns, events |-> evs,
           call |-> Call("deleteEvent", "error", Null, <<>>, FALSE)]
     ELSE IF currentEvent = Null
     THEN [lanes |-> lns, events |-> evs,
           call |-> Call("deleteEvent", "not_found", Null, <<>>, FALSE)]
     ELSE IF fail = "update"
     THEN [lanes |-> lns, events |-> evs,
           call |-> Call("deleteEvent", "error", Null, <<>>, FALSE)]
     ELSE [lanes |-> u.lanes, events |-> updated,
           call |-> Call("deleteEvent", swallow(u), Null, <<lane>>, u.threw)]

\* hardDeleteEvent(id); fail: "delete" or "none"
hardDeleteEvent(lns, evs, id, fail) ==
  IF fail = "delete"
  THEN [lanes |-> lns, events |-> evs,
        call |-> Call("hardDeleteEvent", "error", Null, <<>>, FALSE)]
  ELSE [lanes |-> lns, events |-> [e \in DOMAIN evs \ {id} |-> evs[e]],
        call |-> Call("hardDeleteEvent", "ok", Null, <<>>, FALSE)]

\* an update filtered by id alone
reorderWriteById(evs, memoryLaneId, pair) ==
  [e \in DOMAIN evs |->
     IF e = pair.id
     THEN [evs[e] EXCEPT !.order_position = pair.order_position]
     ELSE evs[e]]

\* reorderEvents lines 163-173: one update of the batch, as the repository
\* applies it (no row matches unless the id is a live event of that lane)
reorderWrite(evs, memoryLaneId, pair) ==
  [e \in DOMAIN evs |->
     IF e = pair.id /\ evs[e].memory_lane_id = memoryLaneId /\ ~evs[e].deleted_at
     THEN [evs[e] EXCEPT !.order_position = pair.order_position]
     ELSE evs[e]]

\* the updates applied one after another in the order of the batch
RECURSIVE reorderWritesInBatchOrder(_, _, _, _, _)
reorderWritesInBatchOrder(evs, memoryLaneId, eventOrders, served, failed) ==
  IF eventOrders = <<>> THEN evs
  ELSE reorderWritesInBatchOrder(
         reorderWrite(evs, memoryLaneId, Head(eventOrders)),
         memoryLaneId, Tail(eventOrders), served, failed)

\* the updates of the batch applied in the order the repository serves them
\* (served: indices into eventOrders), skipping those that fail
RECURSIVE reorderWrites(_, _, _, _, _)
reorderWrites(evs, memoryLaneId, eventOrders, served, failed) ==
  IF served = <<>> THEN evs
  ELSE reorderWrites(
         IF Head(served) \in failed THEN evs
         ELSE reorderWrite(evs, memoryLaneId, eventOrders[Head(served)]),
         memoryLaneId, eventOrders, Tail(served), failed)

\* reorderEvents(memoryLaneId, eventOrders): Promise.all over the update
\* builders, whose { error } results are not inspected
reorderEvents(lns, evs, memoryLaneId, eventOrders, served, failed) ==
  [lanes |-> lns,
   events |-> reorderWrites(evs, memoryLaneId, eventOrders, served, failed),
   call |-> Call("reorderEvents", "ok", Null, <<>>, FALSE)]

\* createMemoryLane(memoryLane): the inserted row (date range columns left
\* unset); memoryLane = [user_id, is_public]
createMemoryLane(lns, memoryLane) ==
  LET id == NewId(LaneIds, DOMAIN lns)
  IN [l \in DOMAIN lns \cup {id} |->
        IF l = id
        THEN [user_id |-> memoryLane.user_id, is_public |-> memoryLane.is_public,
              deleted_at |-> FALSE, date_range_start |-> Null,
              date_range_end |-> Null]
        ELSE lns[l]]

\* deleteMemoryLane: .update({ deleted_at }).eq('id', id)
deleteMemoryLane(lns, id) ==
  [l \in DOMAIN lns |-> IF l = id THEN [lns[l] EXCEPT !.deleted_at = TRUE] ELSE lns[l]]

\* ----------------------------------------------------- eventService: images
ImagesOf(imgs, eventId) == {i \in DOMAIN imgs : imgs[i].event_id = eventId}

\* .eq('event_id', eventId).order('order_position', { ascending: true }): the
\* orders the repository may return the rows in (rows of equal position in
\* either order)
ascendingOrders(imgs, eventId) ==
  LET ids == ImagesOf(imgs, eventId)
      n == Cardinality(ids)
  IN {s \in [1..n -> ids] :
        /\ \A i \in ids : \E k \in 1..n : s[k] = i
        /\ \A j \in 1..n, k \in 1..n :
             j < k => imgs[s[j]].order_position <= imgs[s[k]].order_position}

\* addEventImage lines 239-252: the position of a new non-primary image
imageAppendPosition(imgs, eventId) ==
  LET maxOrderData == ImagesOf(imgs, eventId)
  IN IF maxOrderData # {}
     THEN 1 + (CHOOSE p \in {imgs[i].order_position : i \in maxOrderData} :
                 \A i \in maxOrderData : imgs[i].order_position <= p)
     ELSE 1

\* rpc('shift_image_positions', { event_id_param }): "Move all existing images
\* up by one position"
shift_image_positions(imgs, event_id_param) ==
  [i \in DOMAIN imgs |->
     IF imgs[i].event_id = event_id_param
     THEN [imgs[i] EXCEPT !.order_position = @ + 1] ELSE imgs[i]]

\* a by-hand shift that writes nothing back
shiftByHandLost(imgs, eventId, fetchFails, failed) == imgs

\* addEventImage lines 273-286: the shift done by hand when the rpc is not
\* available: every fetched image is written its fetched position + 1, except
\* the writes that fail (failed), whose errors are not inspected; nothing is
\* written when the fetch fails
shiftByHand(imgs, eventId, fetchFails, failed) ==
  [i \in DOMAIN imgs |->
     IF imgs[i].event_id = eventId /\ ~fetchFails /\ i \notin failed
     THEN [imgs[i] EXCEPT !.order_position = @ + 1] ELSE imgs[i]]

\* addEventImage(eventId, imageUrl, altText, isPrimary)
\*   rpc    "ok" or "error": the result of the shift_image_positions call
\*   fail   "maxOrder", "fetch", "insert" or "none": the round trip that fails
\*   failed the images whose by-hand update fails
addEventImage(imgs, eventId, isPrimary, rpc, fail, failed) ==
  LET id == NewId(ImageIds, DOMAIN imgs)
      orderPosition == IF isPrimary THEN 0 ELSE imageAppendPosition(imgs, eventId)
      shifted == IF ~isPrimary THEN imgs
                 ELSE IF rpc = "ok" THEN shift_image_positions(imgs, eventId)
                 ELSE shiftByHand(imgs, eventId, fail = "fetch", failed)
      row == [event_id |-> eventId, order_position |-> orderPosition]
  IN IF fail = "maxOrder"
     THEN [images |-> imgs, call |-> Call("addEventImage", "error", Null, <<>>, FALSE)]
     ELSE IF fail = "insert"
     THEN [images |-> shifted,
           call |-> Call("addEventImage", "error", Null, <<>>, FALSE)]
     ELSE [images |-> [i \in DOMAIN imgs \cup {id} |->
                         IF i = id THEN row ELSE shifted[i]],
           call |-> Call("addEventImage", "ok", Some(id), <<>>, FALSE)]

\* deleteImage(id)
deleteImage(imgs, id, fail) ==
  IF fail = "delete"
  THEN [images |-> imgs, call |-> Call("deleteImage", "error", Null, <<>>, FALSE)]
  ELSE [images |-> [i \in DOMAIN imgs \ {id} |-> imgs[i]],
        call |-> Call("deleteImage", "ok", Null, <<>>, FALSE)]

\* the 'memory-images' bucket, as the set of the images whose file it holds
\* (a file is named here by the image row that stores its public URL)
\* uploadEventImage(file, eventId): .upload(filePath, file, { upsert: true })
uploadEventImage(store, fileName) == store \cup {fileName}

\* deleteEventImage(filename): .remove([filename])
deleteEventImage(store, filename) == store \ {filename}

\* a promotion that leaves the other images where they were
renumberNothing(imgs, fetched, imageId, position, failed) == imgs

\* setPrimaryImage lines 363-374: the fetched images other than imageId are
\* written 1, 2, 3, ... in fetched order; a write that fails (failed) is not
\* inspected and still consumes its number
RECURSIVE renumber(_, _, _, _, _)
renumber(imgs, fetched, imageId, position, failed) ==
  IF fetched = <<>> THEN imgs
  ELSE LET image == Head(fetched)
       IN IF image = imageId
          THEN renumber(imgs, Tail(fetched), imageId, position, failed)
          ELSE renumber(
                 IF image \in failed THEN imgs
                 ELSE [imgs EXCEPT ![image].order_position = position],
                 Tail(fetched), imageId, position + 1, failed)

\* setPrimaryImage(imageId, eventId); fetched is the order the repository
\* returned the event's images in; fail: "fetch", "update" or "none"
setPrimaryImage(imgs, imageId, eventId, fetched, fail, failed) ==
  LET target == [i \in DOMAIN imgs |->
                   IF i = imageId THEN [imgs[i] EXCEPT !.order_position = 0]
                   ELSE imgs[i]]
  IN IF fail \in {"fetch", "update"}
     THEN [images |-> imgs,
           call |-> Call("setPrimaryImage", "error", Null, <<>>, FALSE)]
     ELSE [images |-> renumber(target, fetched, imageId, 1, failed),
           call |-> Call("setPrimaryImage", "ok", Null, <<>>, FALSE)]

\* ------------------------------------------------- AuthProvider and routes
\* userService.getUserById / getUserByUsername (usernames are the ids): the
\* row, whatever its isActive flag, or null
getUserById(usrs, id) == IF id \in DOMAIN usrs THEN Some(id) ELSE Null
getUserByUsername(usrs, username) == getUserById(usrs, username)

\* userService.getUsers: .eq('isActive', true)
getUsers(usrs) == {u \in DOMAIN usrs : usrs[u].isActive}

\* userService.createUser: new users are active
createUser(usrs, username) == (username :> [isActive |-> TRUE]) @@ usrs

\* userService.updateUser(id, updates): .update(updates).eq('id', id); updates
\* names a new isActive or, for a profile edit, leaves the flag out
updateUser(usrs, id, updates) ==
  [u \in DOMAIN usrs |->
     IF u = id /\ updates # Null
     THEN [usrs[u] EXCEPT !.isActive = Val(updates)]
     ELSE usrs[u]]

\* userService.deleteUser: .delete().eq('id', id)
deleteUser(usrs, id) == [u \in DOMAIN usrs \ {id} |-> usrs[u]]

\* a handler that removes the row
handleDeleteUserByRemoval(usrs, id) == [u \in DOMAIN usrs \ {id} |-> usrs[u]]

\* UserCard.handleDeleteUser's write: updateUser(user.id, { isActive: false })
handleDeleteUser(usrs, id) == updateUser(usrs, id, Some(FALSE))

Paths ==
  {"/", "/memories", "/memories/create", "/memories/lane/:laneId",
   "/memories/settings", "/share/:shareId"}
MemoriesPaths ==
  {"/memories", "/memories/create", "/memories/lane/:laneId", "/memories/settings"}

\* localStorage 'currentUser': nothing, or a string that parses to a user or
\* does not parse
SavedUsers ==
  {Null} \cup {Some([parses |-> TRUE, id |-> u]) : u \in UserIds}
         \cup {Some([parses |-> FALSE, id |-> 0])}

\* AuthProvider on a fresh page load: useState initial values; started tells
\* whether its mount effect has run, pending holds the requests in flight
InitialAuth(saved) ==
  [currentUser |-> Null, loading |-> TRUE, error |-> Null, savedUser |-> saved,
   started |-> FALSE, pending |-> {}]

\* the element a child route of /memories gives
\* (currentUser ? <Page user={currentUser} /> : <Navigate to='/' />)
routeElement(a, path) ==
  IF a.currentUser # Null THEN path ELSE "Navigate"

\* MainLayout's render
MainLayout(a, path) ==
  IF a.loading THEN "spinner"
  ELSE IF a.error # Null \/ a.currentUser = Null THEN "Authentication required"
  ELSE routeElement(a, path)

\* what AppRoutes shows at path: a page of /memories is named by its path
Rendered(a, path) ==
  IF path = "/" THEN "HomePage"
  ELSE IF path = "/share/:shareId" THEN "SharedMemoryLaneViewPage"
  ELSE MainLayout(a, path)

\* a redirect that does not wait for the provider
redirectWhileLoading(a) == a.currentUser = Null

\* MainLayout's effect: if (!loading && !currentUser) navigate('/')
redirectNeeded(a) == ~a.loading /\ a.currentUser = Null

\* ---------------------------------------------- lane views (share, detail)
\* SharedMemoryLaneView / MemoryLaneDetail before they are mounted, and their
\* useState initial values: imagesMap is fetchMemoryLane's local, pc the await
\* fetchMemoryLane is suspended at ("idle": not running)
ClosedView ==
  [kind |-> "none", laneId |-> 0, viewer |-> 0, pc |-> "idle",
   memoryLane |-> Null, events |-> <<>>, eventImages |-> <<>>,
   imagesMap |-> <<>>, loading |-> TRUE, error |-> Null,
   showShareConfirmDialog |-> FALSE]

\* a check that lets every signed-in user through
detailAllowedToAll(laneData, user) == TRUE

\* MemoryLaneDetail: !(laneData.user_id !== user.id && !laneData.is_public)
detailAllowed(laneData, user) ==
  ~(laneData.user_id # user /\ ~laneData.is_public)

\* SharedMemoryLaneView: !(!laneData.is_public)
shareAllowed(laneData) == laneData.is_public

\* fetchMemoryLane from getMemoryLaneById's answer to the next await or return
\* (the share view's getUserById for the creator sets nothing modelled here)
laneFetched(v, lns, fails) ==
  LET laneData == getMemoryLaneById(lns, v.laneId)
      stop == [v EXCEPT !.pc = "idle", !.loading = FALSE]
  IN IF fails
     THEN [stop EXCEPT !.error = Some("Failed to load memory lane details")]
     ELSE IF laneData = Null
     THEN [stop EXCEPT !.error = Some("Memory lane not found")]
     ELSE IF v.kind = "share" /\ ~shareAllowed(Val(laneData))
     THEN [stop EXCEPT !.error =
             Some("This memory lane is not available for public viewing")]
     ELSE IF v.kind = "detail" /\ ~detailAllowed(Val(laneData), v.viewer)
     THEN [stop EXCEPT !.error =
             Some("You do not have permission to view this memory lane")]
     ELSE [v EXCEPT !.memoryLane = laneData, !.pc = "events"]

\* ... from getMemoryLaneEvents' answer: setEvents, then the first
\* getEventImages, or setEventImages({}) at once for a lane without events
eventsFetched(v, evs, fails) ==
  LET eventsData == getMemoryLaneEvents(evs, v.laneId)
  IN IF fails
     THEN [v EXCEPT !.pc = "idle", !.loading = FALSE,
                    !.error = Some("Failed to load memory lane details")]
     ELSE IF Len(eventsData) = 0
     THEN [v EXCEPT !.pc = "idle", !.loading = FALSE]
     ELSE [v EXCEPT !.events = eventsData, !.pc = "images"]

\* ... from one getEventImages' answer (eventImagesData): the next event's
\* images, or setEventImages(imagesMap) after the last
imagesFetched(v, eventImagesData, fails) ==
  LET k == Cardinality(DOMAIN v.imagesMap) + 1
      imagesMap == (v.events[k] :> eventImagesData) @@ v.imagesMap
  IN IF fails
     THEN [v EXCEPT !.pc = "idle", !.loading = FALSE,
                    !.error = Some("Failed to load memory lane details")]
     ELSE IF k = Len(v.events)
     THEN [v EXCEPT !.imagesMap = imagesMap, !.eventImages = imagesMap,
                    !.pc = "idle", !.loading = FALSE]
     ELSE [v EXCEPT !.imagesMap = imagesMap]

\* updateMemoryLane(laneId, { is_public })
updateVisibility(lns, id, is_public) ==
  [l \in DOMAIN lns |->
     IF l = id /\ ~lns[l].deleted_at
     THEN [lns[l] EXCEPT !.is_public = is_public]
     ELSE lns[l]]

\* ---------------------------------------------------------------- inputs
\* an optional value: left out by the caller, or one of vals
Optional(vals) == {Null} \cup {Some(v) : v \in vals}

\* createEvent's argument, with the order_position drawn from positions
EventInputs(positions) ==
  [memory_lane_id : DOMAIN lanes, event_date : Dates, order_position : positions]

\* updateEvent's updates, with the order_position drawn from positions
UpdateInputs(positions) ==
  [event_date : Optional(Dates), order_position : positions,
   memory_lane_id : Optional(DOMAIN lanes)]

\* createMemoryLane's argument: any owner, private or public; and the lane a
\* user makes for themselves with the form's default (private)
LaneInputs == [user_id : UserIds, is_public : BOOLEAN]
OwnLane == [user_id |-> 1, is_public |-> FALSE]

ReorderPairs == [id : EventIds, order_position : Positions]
ReorderInputs == UNION {[1..n -> ReorderPairs] : n \in 0..MaxBatch}

\* batches long enough for one write to fail after another was applied, and
\* for an id to occur twice
ReorderBatches == UNION {[1..n -> ReorderPairs] : n \in 0..(MaxBatch + 1)}

\* the orders in which a batch of n parallel updates can be served
Servings(n) ==
  {s \in [1..n -> 1..n] : \A i \in 1..n : \E j \in 1..n : s[j] = i}

CreateFailures == {"maxOrder", "insert", "udrRead", "udrWrite"}
UpdateFailures == {"get", "update", "udrRead", "udrWrite"}

\* ---------------------------------------------------------------- actions
Apply(r) ==
  /\ lanes' = r.lanes
  /\ events' = r.events
  /\ last' = r.call
  /\ UNCHANGED <<images, clientVars>>

CreateEvent(event, fail) ==
  /\ Cardinality(DOMAIN events) < MaxEvents
  /\ createPosition(events, event) <= MaxPos
  /\ fail = "maxOrder" =>
       (event.order_position = Null \/ event.order_position = Some(0))
  /\ Apply(createEvent(lanes, events, event, fail))

\* createEvent called without an order_position, in a table of up to
\* MaxAppends rows
AppendEvent(event) ==
  /\ event.order_position = Null
  /\ Cardinality(DOMAIN events) < MaxAppends
  /\ Apply(createEvent(lanes, events, event, "none"))

UpdateEvent(id, updates, fail) ==
  /\ fail \in {"update", "udrRead", "udrWrite"} => getEventById(events, id) # Null
  /\ fail \in {"udrRead", "udrWrite"} => updates.event_date # Null
  /\ Apply(updateEvent(lanes, events, id, updates, fail))

DeleteEvent(id, fail) ==
  /\ fail \in {"update", "udrRead", "udrWrite"} => getEventById(events, id) # Null
  /\ Apply(deleteEvent(lanes, events, id, fail))

HardDeleteEvent(id, fail) ==
  Apply(hardDeleteEvent(lanes, events, id, fail))

ReorderEvents(memoryLaneId, eventOrders, served, failed) ==
  Apply(reorderEvents(lanes, events, memoryLaneId, eventOrders, served, failed))

CreateMemoryLane(memoryLane) ==
  /\ DOMAIN lanes # LaneIds
  /\ Apply([lanes |-> createMemoryLane(lanes, memoryLane), events |-> events,
            call |-> Call("createMemoryLane", "ok",
                          Some(NewId(LaneIds, DOMAIN lanes)), <<>>, FALSE)])

DeleteMemoryLane(id) ==
  Apply([lanes |-> deleteMemoryLane(lanes, id), events |-> events,
         call |-> Call("deleteMemoryLane", "ok", Null, <<>>, FALSE)])

UpdateDateRange(memoryLaneId, fail) ==
  LET u == updateDateRange(lanes, events, memoryLaneId, fail)
  IN Apply([lanes |-> u.lanes, events |-> events,
            call |-> [Call("updateDateRange", IF u.threw THEN "error" ELSE "ok",
                           Null, <<memoryLaneId>>, u.threw)
                        EXCEPT !.range = u.ret]])

\* formatDateRange(startDate, endDate) in a page whose zone is tz; the call
\* record keeps the arguments and the text returned
FormatDateRange(startDate, endDate, tz) ==
  Apply([lanes |-> lanes, events |-> events,
         call |-> [Call("formatDateRange", "ok", Null, <<>>, FALSE)
                     EXCEPT !.range = Some([start |-> startDate, end |-> endDate,
                                            tz |-> tz,
                                            text |-> formatDateRange(startDate,
                                                                     endDate, tz)])]])

ApplyImages(r) ==
  /\ images' = r.images
  /\ last' = r.call
  /\ UNCHANGED <<lanes, events, clientVars>>

AddEventImage(eventId, isPrimary, rpc, fail, failed) ==
  /\ Cardinality(DOMAIN images) < MaxImages
  /\ imageAppendPosition(images, eventId) <= MaxImagePos
  /\ ApplyImages(addEventImage(images, eventId, isPrimary, rpc, fail, failed))

DeleteImage(id, fail) ==
  ApplyImages(deleteImage(images, id, fail))

SetPrimaryImage(imageId, eventId, fetched, fail, failed) ==
  ApplyImages(setPrimaryImage(images, imageId, eventId, fetched, fail, failed))

\* the lane creation form, one image of one event: uploadEventImage, then
\* addEventImage with the URL returned
UploadAndAddImage(eventId, isPrimary) ==
  /\ Cardinality(DOMAIN images) < MaxImages
  /\ imageAppendPosition(images, eventId) <= MaxImagePos
  /\ LET r == addEventImage(images, eventId, isPrimary, "ok", "none", {})
     IN /\ storage' = uploadEventImage(storage, Val(r.call.ret))
        /\ images' = r.images
        /\ last' = r.call
  /\ UNCHANGED <<lanes, events, users, auth, route, view, calls>>

DeleteEventImage(filename) ==
  /\ storage' = deleteEventImage(storage, filename)
  /\ last' = Call("deleteEventImage", "ok", Null, <<>>, FALSE)
  /\ UNCHANGED <<lanes, events, images, users, auth, route, view, calls>>

\* UserList's create form on the home page, with a username no row holds
CreateUser(username) ==
  /\ Rendered(auth, route.path) = "HomePage"
  /\ username \notin DOMAIN users
  /\ users' = createUser(users, username)
  /\ last' = Call("createUser", "ok", Some(username), <<>>, FALSE)
  /\ UNCHANGED <<lanes, events, images, auth, route, view, storage, calls>>

\* UserList's edit form: updateUser with the profile fields
EditUser(id) ==
  /\ Rendered(auth, route.path) = "HomePage"
  /\ id \in DOMAIN users
  /\ users' = updateUser(users, id, Null)
  /\ last' = Call("updateUser", "ok", Some(id), <<>>, FALSE)
  /\ UNCHANGED <<lanes, events, images, auth, route, view, storage, calls>>

\* UserCard.handleDeleteUser on a card of the home page's list; fails: the
\* update's round trip fails (caught and logged)
HandleDeleteUser(id, fails) ==
  /\ Rendered(auth, route.path) = "HomePage"
  /\ id \in DOMAIN users
  /\ users' = IF fails THEN users ELSE handleDeleteUser(users, id)
  /\ last' = Call("handleDeleteUser", IF fails THEN "error" ELSE "ok", Some(id),
                  <<>>, FALSE)
  /\ UNCHANGED <<lanes, events, images, auth, route, view, storage, calls>>

\* caller c calls createEvent(event) without an order_position and reaches the
\* maxOrder query
BeginCreate(c, event) ==
  /\ calls[c].pc = "idle"
  /\ event.order_position = Null
  /\ Cardinality(DOMAIN events)
       + Cardinality({d \in Callers : calls[d].pc \in {"maxOrder", "insert"}})
     < MaxAppends
  /\ calls' = [calls EXCEPT ![c] = [IdleCall EXCEPT !.pc = "maxOrder",
                                                    !.event = Some(event)]]
  /\ UNCHANGED <<lanes, events, images, last, users, auth, route, view, storage>>

\* the maxOrder query answers: event.order_position is set
MaxOrderRead(c) ==
  /\ calls[c].pc = "maxOrder"
  /\ LET event == Val(calls[c].event)
     IN calls' = [calls EXCEPT
                    ![c].pc = "insert",
                    ![c].position = createPosition(events, event),
                    ![c].siblings = LiveEvents(events, event.memory_lane_id)]
  /\ UNCHANGED <<lanes, events, images, last, users, auth, route, view, storage>>

\* the insert answers
Inserted(c) ==
  /\ calls[c].pc = "insert"
  /\ LET event == Val(calls[c].event)
         id == NewId(EventIds, DOMAIN events)
         row == [memory_lane_id |-> event.memory_lane_id,
                 event_date |-> event.event_date,
                 order_position |->
                   insertedPosition(calls[c].position, events, event.memory_lane_id),
                 deleted_at |-> FALSE]
     IN /\ events' = (id :> row) @@ events
        /\ calls' = [calls EXCEPT ![c].pc = "udrRead", ![c].id = id]
  /\ UNCHANGED <<lanes, images, last, users, auth, route, view, storage>>

\* updateDateRange's getMemoryLaneEvents answers
RangeRead(c) ==
  /\ calls[c].pc = "udrRead"
  /\ calls' = [calls EXCEPT
                 ![c].pc = "udrWrite",
                 ![c].range = dateRangeOf(events, Val(calls[c].event).memory_lane_id)]
  /\ UNCHANGED <<lanes, events, images, last, users, auth, route, view, storage>>

\* updateDateRange's updateMemoryLane answers and createEvent resolves
RangeWritten(c) ==
  /\ calls[c].pc = "udrWrite"
  /\ LET memoryLaneId == Val(calls[c].event).memory_lane_id
         r == writtenRange(calls[c].range, events, memoryLaneId)
     IN /\ lanes' = updateMemoryLane(lanes, memoryLaneId, r.start, r.end)
        /\ last' = [Call("createEvent", "ok", Some(calls[c].id), <<memoryLaneId>>,
                         FALSE) EXCEPT !.range = Some(r)]
  /\ calls' = [calls EXCEPT ![c].pc = "idle"]
  /\ UNCHANGED <<events, images, users, auth, route, view, storage>>

\* a page load at path: the provider starts over, localStorage stays
Reload(path) ==
  /\ auth' = InitialAuth(auth.savedUser)
  /\ route' = [path |-> path, by |-> "user"]
  /\ UNCHANGED <<lanes, events, images, last, view, storage, calls, users>>

\* AuthProvider's mount effect
CheckSavedUser ==
  /\ ~auth.started
  /\ auth' =
       IF auth.savedUser = Null
       THEN [auth EXCEPT !.started = TRUE, !.loading = FALSE]
       ELSE IF ~Val(auth.savedUser).parses
       THEN [auth EXCEPT !.started = TRUE, !.loading = FALSE, !.savedUser = Null]
       ELSE [auth EXCEPT !.started = TRUE,
                         !.pending = @ \cup {[kind |-> "verify",
                                              user |-> Val(auth.savedUser).id]}]
  /\ UNCHANGED <<lanes, events, images, last, view, storage, calls, users, route>>

\* getUserById(parsedUser.id) settles: then / catch / finally
VerifyUser(p, fails) ==
  /\ p \in auth.pending
  /\ p.kind = "verify"
  /\ auth' =
       LET a == [auth EXCEPT !.pending = @ \ {p}, !.loading = FALSE]
       IN IF fails THEN [a EXCEPT !.error = Some("Failed to verify user")]
          ELSE IF getUserById(users, p.user) # Null
          THEN [a EXCEPT !.currentUser = getUserById(users, p.user)]
          ELSE [a EXCEPT !.savedUser = Null]
  /\ UNCHANGED <<lanes, events, images, last, view, storage, calls, users, route>>

\* UserCard.handleLogin up to the await in login(username)
StartLogin(username) ==
  /\ Rendered(auth, route.path) = "HomePage"
  /\ auth' = [auth EXCEPT !.loading = TRUE, !.error = Null,
                          !.pending = @ \cup {[kind |-> "login", user |-> username]}]
  /\ UNCHANGED <<lanes, events, images, last, view, storage, calls, users, route>>

\* getUserByUsername settles: the rest of login, then handleLogin's
\* navigate('/memories') when login did not throw
FinishLogin(p, fails) ==
  /\ p \in auth.pending
  /\ p.kind = "login"
  /\ LET a == [auth EXCEPT !.pending = @ \ {p}, !.loading = FALSE]
         user == getUserByUsername(users, p.user)
     IN IF fails
        THEN /\ auth' = [a EXCEPT !.error = Some("Failed to login")]
             /\ route' = route
        ELSE IF user = Null
        THEN /\ auth' = [a EXCEPT !.error = Some("User not found")]
             /\ route' = route
        ELSE /\ auth' = [a EXCEPT !.currentUser = user,
                                  !.savedUser = Some([parses |-> TRUE,
                                                      id |-> Val(user)])]
             /\ route' = [path |-> "/memories", by |-> "user"]
  /\ UNCHANGED <<lanes, events, images, last, view, storage, calls, users>>

\* LeftMenubar.handleLogout: logout(); navigate('/')
Logout ==
  /\ Rendered(auth, route.path) \in MemoriesPaths
  /\ auth' = [auth EXCEPT !.currentUser = Null, !.savedUser = Null]
  /\ route' = [path |-> "/", by |-> "user"]
  /\ UNCHANGED <<lanes, events, images, last, view, storage, calls, users>>

\* a link or button of the page shown is followed
Visit(path) ==
  /\ route' = [path |-> path, by |-> "user"]
  /\ UNCHANGED <<lanes, events, images, last, view, storage, calls, users, auth>>

\* MainLayout's effect, or a rendered <Navigate to='/' />
RedirectHome ==
  /\ route.path \in MemoriesPaths
  /\ redirectNeeded(auth) \/ Rendered(auth, route.path) = "Navigate"
  /\ route' = [path |-> "/", by |-> "redirect"]
  /\ UNCHANGED <<lanes, events, images, last, view, storage, calls, users, auth>>

\* /share/:shareId or /memories/lane/:laneId is opened: the component mounts
\* and its effect runs fetchMemoryLane up to the first await
OpenView(kind, laneId, viewer) ==
  /\ view' = [ClosedView EXCEPT !.kind = kind, !.laneId = laneId,
                                !.viewer = viewer, !.pc = "lane"]
  /\ UNCHANGED <<lanes, events, images, last, users, auth, route, storage, calls>>

LaneFetched(fails) ==
  /\ view.pc = "lane"
  /\ view' = laneFetched(view, lanes, fails)
  /\ UNCHANGED <<lanes, events, images, last, users, auth, route, storage, calls>>

EventsFetched(fails) ==
  /\ view.pc = "events"
  /\ view' = eventsFetched(view, events, fails)
  /\ UNCHANGED <<lanes, events, images, last, users, auth, route, storage, calls>>

ImagesFetched(fails) ==
  /\ view.pc = "images"
  /\ \E eventImagesData \in
         ascendingOrders(images, view.events[Cardinality(DOMAIN view.imagesMap) + 1]) :
       view' = imagesFetched(view, eventImagesData, fails)
  /\ UNCHANGED <<lanes, events, images, last, users, auth, route, storage, calls>>

\* MemoryLaneDetail.handleToggleVisibility / handleConfirmMakePublicAndShare
\* by the lane's owner: the row's is_public is written
ToggleVisibility(id, is_public) ==
  /\ id \in DOMAIN lanes
  /\ Apply([lanes |-> updateVisibility(lanes, id, is_public), events |-> events,
            call |-> Call("updateMemoryLane", "ok", Null, <<>>, FALSE)])

\* the detail page shows its lane: the visibility button and the share menu
\* are rendered for every viewer (only 'Add First Event' asks isOwner)
LaneShown ==
  /\ view.kind = "detail"
  /\ ~view.loading
  /\ view.error = Null
  /\ view.memoryLane # Null

\* MemoryLaneDetail.handleToggleVisibility; fails: updateMemoryLane rejects
HandleToggleVisibility(fails) ==
  /\ LaneShown
  /\ LET newVisibility == ~Val(view.memoryLane).is_public
     IN IF fails
        THEN /\ UNCHANGED <<lanes, view>>
             /\ last' = Call("handleToggleVisibility", "error", Null, <<>>, FALSE)
        ELSE /\ lanes' = updateVisibility(lanes, view.laneId, newVisibility)
             /\ view' = [view EXCEPT !.memoryLane =
                           Some([Val(@) EXCEPT !.is_public = newVisibility])]
             /\ last' = Call("handleToggleVisibility", "ok", Null, <<>>, FALSE)
  /\ UNCHANGED <<events, images, users, auth, route, storage, calls>>

\* MemoryLaneDetail.handleCopyShareableLink: the dialog for a private lane,
\* the clipboard for a public one
HandleCopyShareableLink ==
  /\ LaneShown
  /\ view' = IF ~Val(view.memoryLane).is_public
             THEN [view EXCEPT !.showShareConfirmDialog = TRUE]
             ELSE view
  /\ last' = Call("handleCopyShareableLink", "ok", Null, <<>>, FALSE)
  /\ UNCHANGED <<lanes, events, images, users, auth, route, storage, calls>>

\* MemoryLaneDetail.handleConfirmMakePublicAndShare; fails: updateMemoryLane
\* rejects (a clipboard failure after the update changes neither value)
HandleConfirmMakePublicAndShare(fails) ==
  /\ LaneShown
  /\ view.showShareConfirmDialog
  /\ IF fails
     THEN /\ lanes' = lanes
          /\ view' = [view EXCEPT !.showShareConfirmDialog = FALSE]
          /\ last' = Call("handleConfirmMakePublicAndShare", "error", Null, <<>>,
                          FALSE)
     ELSE /\ lanes' = updateVisibility(lanes, view.laneId, TRUE)
          /\ view' = [view EXCEPT !.showShareConfirmDialog = FALSE,
                                  !.memoryLane = Some([Val(@) EXCEPT !.is_public = TRUE])]
          /\ last' = Call("handleConfirmMakePublicAndShare", "ok", Null, <<>>, FALSE)
  /\ UNCHANGED <<events, images, users, auth, route, storage, calls>>

\* the dialog's Cancel (onOpenChange)
CancelShareConfirmDialog ==
  /\ view.showShareConfirmDialog
  /\ view' = [view EXCEPT !.showShareConfirmDialog = FALSE]
  /\ UNCHANGED <<lanes, events, images, last, users, auth, route, storage, calls>>

\* --------------------------------------------------------- specifications
\* the client before any page is loaded
InitClient ==
  /\ users = <<>>
  /\ auth = InitialAuth(Null)
  /\ route = [path |-> "/", by |-> "user"]
  /\ view = ClosedView
  /\ storage = DOMAIN images
  /\ calls = [c \in Callers |-> IdleCall]

Init ==
  /\ lanes = <<>>
  /\ events = <<>>
  /\ images = <<>>
  /\ last = Call("init", "ok", Null, <<>>, FALSE)
  /\ InitClient

\* one caller at a time, every round trip succeeds
Next ==
  \/ CreateMemoryLane(OwnLane)
  \/ \E event \in EventInputs(Optional(Positions)) : CreateEvent(event, "none")
  \/ \E id \in EventIds, updates \in UpdateInputs(Optional(Positions)) :
       UpdateEvent(id, updates, "none")
  \/ \E id \in EventIds : DeleteEvent(id, "none")
  \/ \E id \in EventIds : HardDeleteEvent(id, "none")
  \/ \E l \in LaneIds, eventOrders \in ReorderInputs :
       \E served \in Servings(Len(eventOrders)) :
         ReorderEvents(l, eventOrders, served, {})

Spec == Init /\ [][Next]_vars

\* the date range: events are appended, re-dated, moved and deleted, lanes
\* are deleted, and the range is recomputed on demand
NextDates ==
  \/ CreateMemoryLane(OwnLane)
  \/ \E l \in LaneIds : DeleteMemoryLane(l)
  \/ \E l \in DOMAIN lanes : UpdateDateRange(l, "none")
  \/ \E event \in EventInputs({Null}) : CreateEvent(event, "none")
  \/ \E id \in EventIds, updates \in UpdateInputs({Null}) :
       UpdateEvent(id, updates, "none")
  \/ \E id \in EventIds : DeleteEvent(id, "none")
  \/ \E id \in EventIds : HardDeleteEvent(id, "none")

SpecDates == Init /\ [][NextDates]_vars

\* any round trip of an event mutation may fail
NextFail ==
  \/ CreateMemoryLane(OwnLane)
  \/ \E event \in EventInputs({Null}), fail \in CreateFailures \cup {"none"} :
       CreateEvent(event, fail)
  \/ \E id \in EventIds, updates \in UpdateInputs({Null}),
        fail \in UpdateFailures \cup {"none"} :
       UpdateEvent(id, updates, fail)
  \/ \E id \in EventIds, fail \in UpdateFailures \cup {"none"} : DeleteEvent(id, fail)

SpecFail == Init /\ [][NextFail]_vars

\* the gallery of two events: every round trip succeeds, the shift rpc may
\* be missing, and setPrimaryImage is given an image of the event
InitImages ==
  /\ lanes = (1 :> [user_id |-> 1, is_public |-> FALSE, deleted_at |-> FALSE,
                    date_range_start |-> Some(toISOString(NewDate(1))),
                    date_range_end |-> Some(toISOString(NewDate(1)))])
  /\ events = [e \in {1, 2} |->
                [memory_lane_id |-> 1, event_date |-> 1, order_position |-> e,
                 deleted_at |-> FALSE]]
  /\ images = <<>>
  /\ last = Call("createEvent", "ok", Some(2), <<1>>, FALSE)
  /\ InitClient

NextImages ==
  \/ \E e \in DOMAIN events, isPrimary \in BOOLEAN, rpc \in {"ok", "error"} :
       AddEventImage(e, isPrimary, rpc, "none", {})
  \/ \E id \in ImageIds : DeleteImage(id, "none")
  \/ \E e \in DOMAIN events :
       \E imageId \in ImagesOf(images, e), fetched \in ascendingOrders(images, e) :
         SetPrimaryImage(imageId, e, fetched, "none", {})

SpecImages == InitImages /\ [][NextImages]_vars

\* appends only, from any sibling sets whose positions are pairwise distinct
Distinct(t, ids) ==
  \A a \in ids, b \in ids : a # b => t[a].order_position # t[b].order_position

\* the non-deleted events of a lane
Siblings(evs, l) ==
  {e \in DOMAIN evs : evs[e].memory_lane_id = l /\ evs[e].deleted_at = FALSE}

EventTables ==
  UNION {[1..n -> [memory_lane_id : LaneIds, event_date : {1},
                   order_position : Positions, deleted_at : BOOLEAN]] :
           n \in 0..(MaxEvents - 1)}

ImageTables(eventIds) ==
  UNION {[1..n -> [event_id : eventIds, order_position : 0..MaxImagePos]] :
           n \in 0..(MaxImages - 2)}

InitAppend ==
  /\ events \in {t \in EventTables : \A l \in LaneIds : Distinct(t, Siblings(t, l))}
  /\ lanes = [l \in LaneIds |->
               [user_id |-> 1, is_public |-> FALSE, deleted_at |-> FALSE,
                date_range_start |-> dateRangeOf(events, l).start,
                date_range_end |-> dateRangeOf(events, l).end]]
  /\ images \in {t \in ImageTables(DOMAIN events \cap {1}) :
                   \A e \in DOMAIN events : Distinct(t, ImagesOf(t, e))}
  /\ last = Call("init", "ok", Null, <<>>, FALSE)
  /\ InitClient

NextAppend ==
  \/ \E event \in EventInputs({Null}) : CreateEvent(event, "none")
  \/ \E e \in DOMAIN events, rpc \in {"ok", "error"} :
       AddEventImage(e, FALSE, rpc, "none", {})

SpecAppend == InitAppend /\ [][NextAppend]_vars

\* runs of appends to the lanes, with soft deletes in between
NextSequence ==
  \/ CreateMemoryLane(OwnLane)
  \/ \E event \in EventInputs({Null}) : AppendEvent(event)
  \/ \E id \in EventIds : DeleteEvent(id, "none")

SpecSequence == Init /\ [][NextSequence]_vars

\* the lane cards: lanes are created and their ranges formatted
NextFormat ==
  \/ CreateMemoryLane(OwnLane)
  \/ \E startDate \in Optional(CalendarDays), endDate \in Optional(CalendarDays),
        tz \in TimeZoneOffsets :
       FormatDateRange(startDate, endDate, tz)

SpecFormat == Init /\ [][NextFormat]_vars

\* the session: a page is loaded at any path with any saved user, over any
\* users table; users log in and out, follow links and reload
InitAuth ==
  /\ lanes = <<>>
  /\ events = <<>>
  /\ images = <<>>
  /\ last = Call("init", "ok", Null, <<>>, FALSE)
  /\ users \in {[u \in ids |-> [isActive |-> TRUE]] : ids \in SUBSET UserIds}
  /\ auth \in {InitialAuth(saved) : saved \in SavedUsers}
  /\ route \in {[path |-> path, by |-> "user"] : path \in Paths}
  /\ view = ClosedView
  /\ storage = {}
  /\ calls = [c \in Callers |-> IdleCall]

NextAuth ==
  \/ \E path \in Paths : Reload(path)
  \/ CheckSavedUser
  \/ \E p \in auth.pending, fails \in BOOLEAN : VerifyUser(p, fails)
  \/ \E username \in UserIds : StartLogin(username)
  \/ \E p \in auth.pending, fails \in BOOLEAN : FinishLogin(p, fails)
  \/ Logout
  \/ \E path \in Paths : Visit(path)
  \/ RedirectHome

\* React runs the effect of a committed render
SpecAuth == InitAuth /\ [][NextAuth]_vars /\ WF_vars(RedirectHome)

\* one browser opens share and detail views (the detail view as any signed-in
\* user) while other clients create, publish, hide and delete lanes and add
\* events (to the first lane) and images (to the first event)
NextViews ==
  \/ \E memoryLane \in LaneInputs : CreateMemoryLane(memoryLane)
  \/ \E id \in LaneIds : DeleteMemoryLane(id)
  \/ \E id \in LaneIds, is_public \in BOOLEAN : ToggleVisibility(id, is_public)
  \/ \E event \in EventInputs({Null}) :
       event.memory_lane_id = 1 /\ event.event_date = 1 /\ CreateEvent(event, "none")
  \/ \E e \in DOMAIN events \cap {1} : AddEventImage(e, FALSE, "ok", "none", {})
  \/ \E laneId \in LaneIds : OpenView("share", laneId, 0)
  \/ \E laneId \in LaneIds, viewer \in UserIds : OpenView("detail", laneId, viewer)
  \/ \E fails \in BOOLEAN : LaneFetched(fails)
  \/ \E fails \in BOOLEAN : EventsFetched(fails)
  \/ \E fails \in BOOLEAN : ImagesFetched(fails)

SpecViews == Init /\ [][NextViews]_vars

\* images are uploaded and added, image rows deleted and files removed
NextStorage ==
  \/ CreateMemoryLane(OwnLane)
  \/ \E event \in EventInputs({Null}) : event.event_date = 1 /\ CreateEvent(event, "none")
  \/ \E e \in DOMAIN events, isPrimary \in BOOLEAN : UploadAndAddImage(e, isPrimary)
  \/ \E id \in ImageIds, fail \in {"none", "delete"} : DeleteImage(id, fail)
  \/ \E filename \in ImageIds : DeleteEventImage(filename)

SpecStorage == Init /\ [][NextStorage]_vars

\* the session's flows and the home page's user management
NextUsers ==
  \/ NextAuth
  \/ \E username \in UserIds : CreateUser(username)
  \/ \E id \in UserIds : EditUser(id)
  \/ \E id \in UserIds, fails \in BOOLEAN : HandleDeleteUser(id, fails)

SpecUsers == InitAuth /\ [][NextUsers]_vars

\* two callers (two browser tabs) append events, their round trips interleaved
NextConcurrent ==
  \/ CreateMemoryLane(OwnLane)
  \/ \E c \in Callers, event \in EventInputs({Null}) : BeginCreate(c, event)
  \/ \E c \in Callers : MaxOrderRead(c)
  \/ \E c \in Callers : Inserted(c)
  \/ \E c \in Callers : RangeRead(c)
  \/ \E c \in Callers : RangeWritten(c)

SpecConcurrent == Init /\ [][NextConcurrent]_vars

\* the gallery and the order of two events when single round trips fail: the
\* shift rpc and the by-hand shift of addEventImage, the sibling writes of
\* setPrimaryImage and the parallel writes of reorderEvents
NextPartial ==
  \/ \E e \in DOMAIN events, isPrimary \in BOOLEAN, rpc \in {"ok", "error"},
        fail \in {"none", "maxOrder", "fetch", "insert"} :
       \E failed \in SUBSET ImagesOf(images, e) :
         AddEventImage(e, isPrimary, rpc, fail, failed)
  \/ \E id \in ImageIds : DeleteImage(id, "none")
  \/ \E e \in DOMAIN events, fail \in {"none", "fetch", "update"} :
       \E imageId \in ImagesOf(images, e), fetched \in ascendingOrders(images, e),
          failed \in SUBSET ImagesOf(images, e) :
         SetPrimaryImage(imageId, e, fetched, fail, failed)
  \/ \E l \in DOMAIN lanes :
       \E eventOrders \in {b \in ReorderBatches :
                             \A i \in 1..Len(b) : b[i].id \in DOMAIN events} :
         \E served \in Servings(Len(eventOrders)),
            failed \in SUBSET (1..Len(eventOrders)) :
           ReorderEvents(l, eventOrders, served, failed)

SpecPartial == InitImages /\ [][NextPartial]_vars

\* events are appended to two lanes and soft-deleted, and either lane is
\* reordered with batches of any ids and positions, every write succeeding
NextReorder ==
  \/ CreateMemoryLane(OwnLane)
  \/ \E event \in {ev \in EventInputs({Null}) : ev.event_date = 1} :
       CreateEvent(event, "none")
  \/ \E id \in EventIds : DeleteEvent(id, "none")
  \/ \E l \in LaneIds, eventOrders \in ReorderBatches :
       \E served \in Servings(Len(eventOrders)) :
         ReorderEvents(l, eventOrders, served, {})

SpecReorder == Init /\ [][NextReorder]_vars

\* the sibling operations one after another, none failing: appends and soft
\* deletes of events, and the gallery of the first event
NextSiblings ==
  \/ CreateMemoryLane(OwnLane)
  \/ \E event \in {ev \in EventInputs({Null}) : ev.event_date = 1} : AppendEvent(event)
  \/ \E id \in EventIds : DeleteEvent(id, "none")
  \/ \E e \in DOMAIN events \cap {1}, isPrimary \in BOOLEAN :
       AddEventImage(e, isPrimary, "ok", "none", {})
  \/ \E id \in ImageIds : DeleteImage(id, "none")
  \/ \E e \in DOMAIN events \cap {1} :
       \E imageId \in ImagesOf(images, e), fetched \in ascendingOrders(images, e) :
         SetPrimaryImage(imageId, e, fetched, "none", {})

SpecSiblings == Init /\ [][NextSiblings]_vars

\* the gallery of two events, setPrimaryImage called with any image id and any
\* event id
NextGallery ==
  \/ \E e \in DOMAIN events, isPrimary \in BOOLEAN, rpc \in {"ok", "error"} :
       AddEventImage(e, isPrimary, rpc, "none", {})
  \/ \E id \in ImageIds : DeleteImage(id, "none")
  \/ \E e \in DOMAIN events, imageId \in ImageIds :
       \E fetched \in ascendingOrders(images, e) :
         SetPrimaryImage(imageId, e, fetched, "none", {})

SpecGallery == InitImages /\ [][NextGallery]_vars

\* one browser on the detail pages of lanes of any owner and visibility, as
\* any signed-in user; lanes are created and soft-deleted meanwhile
NextVisibility ==
  \/ \E memoryLane \in LaneInputs : CreateMemoryLane(memoryLane)
  \/ \E id \in LaneIds : DeleteMemoryLane(id)
  \/ \E laneId \in LaneIds, viewer \in UserIds : OpenView("detail", laneId, viewer)
  \/ \E fails \in BOOLEAN : LaneFetched(fails)
  \/ \E fails \in BOOLEAN : EventsFetched(fails)
  \/ \E fails \in BOOLEAN : HandleToggleVisibility(fails)
  \/ HandleCopyShareableLink
  \/ \E fails \in BOOLEAN : HandleConfirmMakePublicAndShare(fails)
  \/ CancelShareConfirmDialog

SpecVisibility == Init /\ [][NextVisibility]_vars

\* ----------------------------------------------------------------- claims
\* C1: from sibling sets with pairwise-distinct positions, after any sequence
\* of appends (createEvent without order_position, addEventImage with
\* isPrimary = false) the non-deleted events of every lane, and the images of
\* every event, still have pairwise-distinct positions.
C1_AppendsKeepPositionsDistinct ==
  /\ \A l \in LaneIds : Distinct(events, Siblings(events, l))
  /\ \A e \in EventIds : Distinct(images, ImagesOf(images, e))

\* an append into a lane that already held an event, or an event that
\* already held an image
C1_Witness ==
  \/ /\ last.op = "createEvent"
     /\ Cardinality(Siblings(events, events[Val(last.ret)].memory_lane_id)) >= 2
  \/ /\ last.op = "addEventImage"
     /\ Cardinality(ImagesOf(images, images[Val(last.ret)].event_id)) >= 2

\* C3: under createEvent (with or without a position), updateEvent,
\* reorderEvents and deleteEvent, the non-deleted events of each lane have
\* pairwise-distinct positions.
C3_EventPositionsDistinct ==
  \A l \in LaneIds : Distinct(events, Siblings(events, l))

Primaries(imgs, eventId) ==
  {i \in ImagesOf(imgs, eventId) : imgs[i].order_position = 0}

\* C2: under addEventImage (primary or not), setPrimaryImage of an image of
\* the event and deleteImage, no event ever has two images at position 0, and
\* whenever another image becomes the primary, the image that held 0 before
\* ends at a non-zero position that no sibling shares.
C2_AtMostOnePrimary ==
  [][/\ \A e \in EventIds : Cardinality(Primaries(images', e)) <= 1
     /\ \A e \in EventIds : \A old \in Primaries(images, e) :
          (old \in DOMAIN images' /\ Primaries(images', e) \ {old} # {})
          => /\ images'[old].order_position # 0
             /\ \A sib \in ImagesOf(images', e) \ {old} :
                  images'[sib].order_position # images'[old].order_position]_vars

\* a promotion (of a new image or of an existing one) has displaced a primary
\* in an event of three images
C2_Witness ==
  /\ last.op \in {"addEventImage", "setPrimaryImage"}
  /\ \E e \in EventIds :
       /\ Cardinality(ImagesOf(images, e)) = 3
       /\ Cardinality(Primaries(images, e)) = 1
       /\ last.op = "addEventImage" => Primaries(images, e) = {Val(last.ret)}

\* C4: setPrimaryImage(imageId, E), imageId one of E's n images: afterwards
\* imageId alone is at 0 and the others hold exactly 1..n-1, in the order of
\* their positions before the call.
C4_SetPrimaryRenumbers ==
  [][\A e \in EventIds : \A imageId \in ImagesOf(images, e) :
       \A fetched \in ascendingOrders(images, e) :
         SetPrimaryImage(imageId, e, fetched, "none", {})
         => LET others == ImagesOf(images, e) \ {imageId}
            IN /\ ImagesOf(images', e) = ImagesOf(images, e)
               /\ Primaries(images', e) = {imageId}
               /\ {images'[i].order_position : i \in others}
                    = 1..(Cardinality(others))
               /\ \A a \in others, b \in others :
                    images[a].order_position < images[b].order_position
                    => images'[a].order_position < images'[b].order_position]_vars

\* a non-primary image of a three-image event has been promoted
C4_Witness ==
  /\ last.op = "setPrimaryImage"
  /\ last.outcome = "ok"
  /\ \E e \in EventIds :
       {images[i].order_position : i \in ImagesOf(images, e)} = {0, 1, 2}

\* the least and the greatest event_date among the non-deleted events of l
EarliestDate(evs, l) ==
  CHOOSE d \in {evs[e].event_date : e \in Siblings(evs, l)} :
    \A e \in Siblings(evs, l) : d <= evs[e].event_date
LatestDate(evs, l) ==
  CHOOSE d \in {evs[e].event_date : e \in Siblings(evs, l)} :
    \A e \in Siblings(evs, l) : evs[e].event_date <= d

\* a range (start, end) is the one the non-deleted events of l span
SpansEvents(start, end, evs, l) ==
  IF Siblings(evs, l) = {}
  THEN start = Null /\ end = Null
  ELSE /\ start # Null /\ Val(start).date = EarliestDate(evs, l)
       /\ end # Null /\ Val(end).date = LatestDate(evs, l)

\* C5: after every completed event operation (createEvent, updateEvent of
\* any fields, deleteEvent, hardDeleteEvent) every non-deleted lane has
\* start <= end when both are set, and both null exactly when it has no
\* non-deleted event.
C5_RangeMatchesEvents ==
  \A l \in DOMAIN lanes :
    ~lanes[l].deleted_at =>
      /\ (lanes[l].date_range_start # Null /\ lanes[l].date_range_end # Null)
           => Val(lanes[l].date_range_start).date <= Val(lanes[l].date_range_end).date
      /\ (lanes[l].date_range_start = Null /\ lanes[l].date_range_end = Null)
           <=> Siblings(events, l) = {}

\* C6 as stated: updateDateRange(l) returns and persists the least and the
\* greatest event_date of the lane's non-deleted events, (null, null) when
\* there are none.
C6_ReturnsAndPersists ==
  [][\A l \in DOMAIN lanes :
       UpdateDateRange(l, "none")
       => /\ last'.range # Null
          /\ SpansEvents(Val(last'.range).start, Val(last'.range).end, events, l)
          /\ SpansEvents(lanes'[l].date_range_start, lanes'[l].date_range_end,
                         events, l)]_vars

\* C6 amended: updateDateRange(l) returns those bounds for every lane; it
\* persists them when the lane is not soft-deleted, and leaves the row of a
\* soft-deleted lane as it was.
C6_ReturnsAndPersistsIfLive ==
  [][\A l \in DOMAIN lanes :
       UpdateDateRange(l, "none")
       => /\ last'.range # Null
          /\ SpansEvents(Val(last'.range).start, Val(last'.range).end, events, l)
          /\ IF lanes[l].deleted_at
             THEN lanes'[l] = lanes[l]
             ELSE SpansEvents(lanes'[l].date_range_start, lanes'[l].date_range_end,
                              events, l)
          /\ \A k \in DOMAIN lanes \ {l} : lanes'[k] = lanes[k]]_vars

\* a recomputation has stored a range over two events whose dates run
\* against their positions
C6_Witness ==
  /\ last.op = "updateDateRange"
  /\ last.outcome = "ok"
  /\ \E l \in DOMAIN lanes :
       /\ last.udr = <<l>>
       /\ ~lanes[l].deleted_at
       /\ lanes[l].date_range_start = Val(last.range).start
       /\ \E a \in Siblings(events, l), b \in Siblings(events, l) :
            /\ events[a].order_position < events[b].order_position
            /\ events[a].event_date > events[b].event_date

\* C8: updateDateRange(l) called again right after updateDateRange(l) returns
\* the same (start, end) and leaves the lane's stored range as the first call
\* left it.
C8_RecomputeIdempotent ==
  [][\A l \in DOMAIN lanes :
       (/\ last.op = "updateDateRange"
        /\ last.outcome = "ok"
        /\ last.udr = <<l>>
        /\ UpdateDateRange(l, "none"))
       => /\ last'.range = last.range
          /\ lanes'[l].date_range_start = lanes[l].date_range_start
          /\ lanes'[l].date_range_end = lanes[l].date_range_end]_vars

\* a recomputation has just returned a non-empty range that the lane now
\* holds, so that the next call repeats it
C8_Witness ==
  /\ last.op = "updateDateRange"
  /\ last.outcome = "ok"
  /\ Val(last.range).start # Null
  /\ \E l \in DOMAIN lanes :
       /\ last.udr = <<l>>
       /\ lanes[l].date_range_start = Val(last.range).start
       /\ lanes[l].date_range_end = Val(last.range).end

\* the greatest position among the non-deleted events of l
GreatestPosition(evs, l) ==
  CHOOSE p \in {evs[e].order_position : e \in Siblings(evs, l)} :
    \A e \in Siblings(evs, l) : evs[e].order_position <= p

\* C7: an event whose deleted_at is set is returned neither by
\* getMemoryLaneEvents nor by getEventById, does not count in the maximum an
\* append reads, does not count in the bounds updateDateRange stores, and is
\* left as it is by updateEvent and reorderEvents.
C7_SoftDeletedExcluded ==
  [][/\ \A l \in LaneIds :
          \A k \in 1..Len(getMemoryLaneEvents(events', l)) :
            ~events'[getMemoryLaneEvents(events', l)[k]].deleted_at
     /\ \A e \in DOMAIN events' : events'[e].deleted_at => getEventById(events', e) = Null
     /\ last'.op = "createEvent"
          => \A event \in EventInputs({Null, Some(0)}) :
          CreateEvent(event, "none")
          => events'[Val(last'.ret)].order_position =
               IF Siblings(events, event.memory_lane_id) = {} THEN 1
               ELSE 1 + GreatestPosition(events, event.memory_lane_id)
     /\ \A l \in DOMAIN lanes :
          (last'.udr = <<l>> /\ ~last'.udrThrew /\ ~lanes[l].deleted_at)
          => SpansEvents(lanes'[l].date_range_start, lanes'[l].date_range_end,
                         events', l)
     /\ last'.op \in {"updateEvent", "reorderEvents"}
          => \A e \in DOMAIN events :
               events[e].deleted_at => (e \in DOMAIN events' /\ events'[e] = events[e])]_vars

\* an append has been given a position that a soft-deleted event of its lane
\* holds or exceeds, and that event's date lies outside the stored range
C7_Witness ==
  /\ last.op = "createEvent"
  /\ \E d \in DOMAIN events :
       LET new == events[Val(last.ret)]
           lane == lanes[new.memory_lane_id]
       IN /\ events[d].deleted_at
          /\ events[d].memory_lane_id = new.memory_lane_id
          /\ new.order_position <= events[d].order_position
          /\ new.order_position = 1
          /\ lane.date_range_end # Null
          /\ Val(lane.date_range_end).date < events[d].event_date

\* C9: when updateDateRange fails after the write of createEvent, updateEvent
\* or deleteEvent succeeded, the call still resolves (createEvent and
\* updateEvent with the event), the event mutation is in the table, and the
\* lanes are as they were.
C9_RecomputeFailureSwallowed ==
  [][/\ (last'.op = "createEvent" /\ last'.udrThrew)
          => \A event \in EventInputs({Null}), fail \in {"udrRead", "udrWrite"} :
          CreateEvent(event, fail)
          => /\ last'.outcome = "ok"
             /\ last'.ret # Null
             /\ Val(last'.ret) \in DOMAIN events' \ DOMAIN events
             /\ events'[Val(last'.ret)].memory_lane_id = event.memory_lane_id
             /\ events'[Val(last'.ret)].event_date = event.event_date
             /\ lanes' = lanes
     /\ (last'.op = "updateEvent" /\ last'.udrThrew)
          => \A id \in EventIds, updates \in UpdateInputs({Null}),
           fail \in {"udrRead", "udrWrite"} :
          UpdateEvent(id, updates, fail)
          => /\ last'.outcome = "ok"
             /\ last'.ret = Some(id)
             /\ events'[id].event_date = Val(updates.event_date)
             /\ updates.memory_lane_id # Null
                  => events'[id].memory_lane_id = Val(updates.memory_lane_id)
             /\ lanes' = lanes
     /\ (last'.op = "deleteEvent" /\ last'.udrThrew)
          => \A id \in EventIds, fail \in {"udrRead", "udrWrite"} :
          DeleteEvent(id, fail)
          => /\ last'.outcome = "ok"
             /\ events'[id].deleted_at
             /\ lanes' = lanes]_vars

\* a call has resolved although its recomputation threw, leaving a lane whose
\* range is stale
C9_Witness ==
  /\ last.op \in {"createEvent", "updateEvent", "deleteEvent"}
  /\ last.udrThrew
  /\ last.outcome = "ok"
  /\ \E l \in DOMAIN lanes :
       /\ last.udr = <<l>>
       /\ ~SpansEvents(lanes[l].date_range_start, lanes[l].date_range_end, events, l)

\* C10: createEvent, updateEvent that changes event_date, and deleteEvent
\* invoke updateDateRange once, after their write, for the lane the event had
\* before the mutation; when the write (or the read before it) fails,
\* updateDateRange is not invoked and the lanes are as they were.
C10_RecomputeInvocation ==
  [][/\ (last'.op \in {"createEvent", "updateEvent", "deleteEvent"}
         /\ last'.outcome # "ok")
          => last'.udr = <<>> /\ lanes' = lanes /\ events' = events
     /\ (last'.op = "createEvent" /\ last'.outcome = "ok")
          => /\ Val(last'.ret) \notin DOMAIN events
             /\ last'.udr = <<events'[Val(last'.ret)].memory_lane_id>>
     /\ (last'.op = "updateEvent" /\ last'.outcome = "ok")
          => (events'[Val(last'.ret)].event_date # events[Val(last'.ret)].event_date
              => last'.udr = <<events[Val(last'.ret)].memory_lane_id>>)
     /\ (last'.op = "deleteEvent" /\ last'.outcome = "ok")
          => \E id \in DOMAIN events :
               /\ ~events[id].deleted_at
               /\ events'[id].deleted_at
               /\ last'.udr = <<events[id].memory_lane_id>>
     /\ \A l \in DOMAIN lanes :
          (last'.udr = <<l>> /\ ~last'.udrThrew /\ ~lanes[l].deleted_at)
          => SpansEvents(lanes'[l].date_range_start, lanes'[l].date_range_end,
                         events', l)
     /\ last'.udrThrew => lanes' = lanes]_vars

\* an update has moved an event to the other lane and changed its date, and
\* the lane it left has been recomputed
C10_Witness ==
  /\ last.op = "updateEvent"
  /\ last.outcome = "ok"
  /\ ~last.udrThrew
  /\ \E l \in DOMAIN lanes :
       /\ last.udr = <<l>>
       /\ events[Val(last.ret)].memory_lane_id # l
       /\ lanes[l].date_range_start = Null

\* C11: createEvent without order_position stores 1 in a lane with no
\* non-deleted event and otherwise 1 + the greatest position of the lane's
\* non-deleted events, which exceeds the position of every one of them; in a
\* lane none of whose events was deleted, the events hold 1, 2, 3, ... in
\* creation order.
C11_AppendAssignsMaxPlusOne ==
  [][\A event \in EventInputs({Null}) :
       AppendEvent(event)
       => LET l == event.memory_lane_id
              new == events'[Val(last'.ret)]
          IN /\ Val(last'.ret) \notin DOMAIN events
             /\ new.memory_lane_id = l
             /\ new.order_position =
                  IF Siblings(events, l) = {} THEN 1
                  ELSE 1 + GreatestPosition(events, l)
             /\ \A e \in Siblings(events, l) :
                  events[e].order_position < new.order_position
             /\ (\A e \in DOMAIN events' : ~events'[e].deleted_at)
                  => \A e \in Siblings(events', l) :
                       events'[e].order_position =
                         Cardinality({f \in Siblings(events', l) : f <= e})]_vars

\* a third append to a lane has been given position 3
C11_Witness ==
  /\ last.op = "createEvent"
  /\ last.outcome = "ok"
  /\ events[Val(last.ret)].order_position = 3
  /\ Cardinality(Siblings(events, events[Val(last.ret)].memory_lane_id)) = 3

\* C12: formatDateRange(start, end) returns 'No events yet' whenever start is
\* null; with both dates given it returns '<Month> <Year>' when they share
\* year and month, '<Month> - <Month> <Year>' when they share the year only,
\* and '<Month> <Year> - <Month> <Year>' when the years differ, the months and
\* years being those of the dates given; it changes no table.
C12_FormatsByYearAndMonth ==
  [][last'.op = "formatDateRange"
     => LET a == Val(last'.range)
            month(d) == Word(MonthNames[Val(d).month], 0)
            year(d) == Word("", Val(d).year)
            dash == Word("-", 0)
        IN /\ lanes' = lanes /\ events' = events /\ images' = images
           /\ a.start = Null => a.text = <<Word("No events yet", 0)>>
           /\ (a.start # Null /\ a.end # Null)
                => a.text =
                     IF Val(a.start).year = Val(a.end).year
                        /\ Val(a.start).month = Val(a.end).month
                     THEN <<month(a.start), year(a.start)>>
                     ELSE IF Val(a.start).year = Val(a.end).year
                     THEN <<month(a.start), dash, month(a.end), year(a.end)>>
                     ELSE <<month(a.start), year(a.start), dash,
                            month(a.end), year(a.end)>>]_vars

\* C13: updateEvent and deleteEvent of an id that names no row, or a row
\* already soft-deleted, are rejected with 'Event not found' (not a repository
\* error) and leave events and lanes as they were, so a second deleteEvent of
\* the same event is rejected; getEventById and getMemoryLaneById return null
\* for such an id.
C13_NotFoundBeforeAnyWrite ==
  [][/\ \A id \in EventIds :
          (id \notin DOMAIN events' \/ events'[id].deleted_at)
          => getEventById(events', id) = Null
     /\ \A l \in LaneIds :
          (l \notin DOMAIN lanes' \/ lanes'[l].deleted_at)
          => getMemoryLaneById(lanes', l) = Null
     /\ last'.op = "updateEvent"
          => \A id \in EventIds :
               (id \notin DOMAIN events \/ events[id].deleted_at)
               => \A updates \in UpdateInputs({Null}) :
                    UpdateEvent(id, updates, "none")
                    => /\ last'.outcome = "not_found"
                       /\ events' = events /\ lanes' = lanes
     /\ last'.op = "deleteEvent"
          => \A id \in EventIds :
               (id \notin DOMAIN events \/ events[id].deleted_at)
               => (DeleteEvent(id, "none")
                   => /\ last'.outcome = "not_found"
                      /\ events' = events /\ lanes' = lanes)
     /\ (last'.op \in {"updateEvent", "deleteEvent"} /\ last'.outcome = "not_found")
          => events' = events /\ lanes' = lanes]_vars

\* a deleteEvent has been rejected as not found while the table holds a
\* soft-deleted event whose lane still has a range
C13_Witness ==
  /\ last.op = "deleteEvent"
  /\ last.outcome = "not_found"
  /\ \E e \in DOMAIN events :
       /\ events[e].deleted_at
       /\ lanes[events[e].memory_lane_id].date_range_start # Null

\* C14: createEvent for a lane that does not exist or is soft-deleted, and
\* addEventImage for an event that does not exist or is soft-deleted, are
\* rejected as not found and create no row under that parent.
C14_MissingParentRejected ==
  [][/\ last'.op = "createEvent"
          => \A event \in EventInputs(Optional(Positions)) :
               (/\ getMemoryLaneById(lanes, event.memory_lane_id) = Null
                /\ CreateEvent(event, "none"))
               => /\ last'.outcome = "not_found"
                  /\ events' = events
     /\ last'.op = "addEventImage"
          => \A e \in EventIds, isPrimary \in BOOLEAN, rpc \in {"ok", "error"} :
               (/\ getEventById(events, e) = Null
                /\ AddEventImage(e, isPrimary, rpc, "none", {}))
               => /\ last'.outcome = "not_found"
                  /\ images' = images]_vars

\* the provider has finished loading without a user, on a page of /memories
SignedOutInMemories ==
  /\ route.path \in MemoriesPaths
  /\ ~auth.loading
  /\ auth.currentUser = Null

\* C15: a page under /memories is rendered only while currentUser is non-null
\* (and the provider is not loading); while the provider is loading no
\* redirect happens; and once it has finished loading with currentUser null
\* the visitor does not stay on /memories: the redirect takes them to '/'.
C15_MemoriesNeedsUser ==
  /\ [](Rendered(auth, route.path) \in MemoriesPaths
          => (auth.currentUser # Null /\ ~auth.loading))
  /\ [](route.by = "redirect" => route.path = "/")
  /\ [][(auth.loading /\ route.path \in MemoriesPaths)
          => ~(route'.by = "redirect" /\ route' # route)]_vars
  /\ (SignedOutInMemories ~> ~SignedOutInMemories)

\* a visitor whose saved user no longer exists has been sent home from the
\* lane page once the provider finished
C15_Witness ==
  /\ route = [path |-> "/", by |-> "redirect"]
  /\ auth.savedUser = Null
  /\ ~auth.loading
  /\ auth.started
  /\ auth.error = Null

\* the lane row with id is there, not soft-deleted, and open to the viewer of
\* a view of that kind
Permitted(lns, kind, id, viewer) ==
  /\ id \in DOMAIN lns
  /\ ~lns[id].deleted_at
  /\ \/ lns[id].is_public
     \/ kind = "detail" /\ lns[id].user_id = viewer

\* a step that sets the view's lane where none was set
LaneLoaded == view.memoryLane = Null /\ view'.memoryLane # Null

\* a step that ends the fetch of a lane the viewer is not permitted
FetchRefused ==
  /\ view.pc = "lane"
  /\ view'.pc # "lane"
  /\ ~Permitted(lanes, view.kind, view.laneId, view.viewer)

C17_DeleteRemovesRowAndObject ==
  [][last'.op = "deleteImage" /\ last'.outcome = "ok"
       => \A id \in DOMAIN images \ DOMAIN images' :
            id \notin DOMAIN images' /\ id \notin storage']_vars

\* C18: a delete through the UI leaves the user's row in the table with its
\* active flag false and every other row as it was: the user is in no result
\* of getUsers and getUserById still returns the row; no step of the UI's
\* flows removes a user row as deleteUser would
C18_DeleteOnlyDeactivates ==
  /\ [][last'.op = "handleDeleteUser" /\ last'.outcome = "ok"
          => LET id == Val(last'.ret)
             IN /\ DOMAIN users' = DOMAIN users
                /\ ~users'[id].isActive
                /\ id \notin getUsers(users')
                /\ getUserById(users', id) = Some(id)
                /\ \A u \in DOMAIN users \ {id} : users'[u] = users[u]]_vars
  /\ [][/\ DOMAIN users \subseteq DOMAIN users'
         /\ \A id \in DOMAIN users : users' # deleteUser(users, id)]_vars

\* a user was deleted through the UI while active; the row is still there
C18_Witness ==
  /\ last.op = "handleDeleteUser"
  /\ last.outcome = "ok"
  /\ Val(last.ret) \in DOMAIN users
  /\ ~users[Val(last.ret)].isActive
  /\ getUsers(users) # {}

\* the callers' latest calls both inserted, into the same lane, after maxOrder
\* queries over the same rows: each read before the other inserted
ReadBeforeEitherInserted(c, d) ==
  /\ c # d
  /\ calls[c].id # 0
  /\ calls[d].id # 0
  /\ Val(calls[c].event).memory_lane_id = Val(calls[d].event).memory_lane_id
  /\ calls[c].siblings = calls[d].siblings

\* C19: two appends on one lane that both read the maximum before either
\* inserted are both stored, non-deleted, with the same order_position
C19_InterleavedAppendsCollide ==
  \A c \in Callers, d \in Callers :
    ReadBeforeEitherInserted(c, d)
      => /\ calls[c].id # calls[d].id
         /\ ~events[calls[c].id].deleted_at
         /\ ~events[calls[d].id].deleted_at
         /\ events[calls[c].id].order_position = events[calls[d].id].order_position

\* both calls have resolved and the lane holds two live events of one position
C19_Witness ==
  /\ \A c \in Callers : calls[c].pc = "idle"
  /\ ReadBeforeEitherInserted(1, 2)
  /\ last.op = "createEvent"
  /\ last.outcome = "ok"
  /\ events[calls[1].id].order_position = events[calls[2].id].order_position

\* C20: the bounds an updateDateRange writes are those of the events it read,
\* whatever was inserted or written since (last write wins), so the stored
\* range can differ from the bounds of the lane's events when no call is running
C20_StaleRangeWritten ==
  [][\A c \in Callers :
       calls[c].pc = "udrWrite" /\ calls'[c].pc = "idle"
         => LET l == Val(calls[c].event).memory_lane_id
            IN /\ lanes'[l].date_range_start = calls[c].range.start
               /\ lanes'[l].date_range_end = calls[c].range.end]_vars

\* no call is running, every call resolved, and a lane's stored range is not
\* the earliest and latest date of its non-deleted events
C20_Witness ==
  /\ \A c \in Callers : calls[c].pc = "idle" /\ calls[c].id # 0
  /\ last.outcome = "ok"
  /\ \E l \in DOMAIN lanes :
       /\ ~lanes[l].deleted_at
       /\ Val(calls[1].event).memory_lane_id = l
       /\ Val(calls[2].event).memory_lane_id = l
       /\ ~SpansEvents(lanes[l].date_range_start, lanes[l].date_range_end, events, l)

\* the images of e hold 0 .. n-1 with promoted at 0, the others in the order
\* of their positions in before
Renumbered(before, after, e, promoted) ==
  LET others == ImagesOf(after, e) \ {promoted}
  IN /\ promoted \in ImagesOf(after, e)
     /\ after[promoted].order_position = 0
     /\ {after[i].order_position : i \in others} = 1..Cardinality(others)
     /\ \A a \in others, b \in others :
          (a # b /\ before[a].order_position < before[b].order_position)
          => after[a].order_position < after[b].order_position

\* C21: after addEventImage(E, ..., isPrimary = true) or setPrimaryImage on E
\* without a failure, the promoted image is at 0 and the other images of E
\* hold 1, 2, 3, ... in the order of their prior positions
C21_PromotionRenumbersAll ==
  [][/\ \A e \in DOMAIN events, rpc \in {"ok", "error"} :
          AddEventImage(e, TRUE, rpc, "none", {})
          => Renumbered(images, images', e, Val(last'.ret))
     /\ \A e \in DOMAIN events : \A imageId \in ImagesOf(images, e) :
          \A fetched \in ascendingOrders(images, e) :
            SetPrimaryImage(imageId, e, fetched, "none", {})
            => Renumbered(images, images', e, imageId)]_vars

\* in the order served, a write of the batch fails after another was applied
FailsAfterSuccess(served, failed) ==
  \E j \in 1..Len(served), k \in 1..Len(served) :
    j < k /\ served[j] \notin failed /\ served[k] \in failed

\* C22: a sibling write of setPrimaryImage or reorderEvents that fails after
\* other writes of the call succeeded makes the call reject, and the writes
\* already applied stay applied
C22_PartialFailureReported ==
  [][/\ last'.op = "setPrimaryImage"
        => \A e \in DOMAIN events : \A imageId \in ImagesOf(images, e) :
             \A fetched \in ascendingOrders(images, e),
                failed \in SUBSET ImagesOf(images, e) :
               (/\ failed \ {imageId} # {}
                /\ SetPrimaryImage(imageId, e, fetched, "none", failed))
               => (/\ last'.outcome = "error"
                   /\ images'[imageId].order_position = 0)
     /\ last'.op = "reorderEvents"
        => \A l \in DOMAIN lanes, eventOrders \in ReorderBatches :
             \A served \in Servings(Len(eventOrders)),
                failed \in SUBSET (1..Len(eventOrders)) :
               (/\ FailsAfterSuccess(served, failed)
                /\ ReorderEvents(l, eventOrders, served, failed))
               => (/\ last'.outcome = "error"
                   /\ events' = reorderWrites(events, l, eventOrders, served,
                                              failed))]_vars

\* the positions a batch gives for event e
GivenPositions(eventOrders, e) ==
  {eventOrders[i].order_position :
     i \in {j \in 1..Len(eventOrders) : eventOrders[j].id = e}}

\* C23: from every reachable table, reorderEvents(lane, pairs) gives every
\* non-deleted event of the lane that a pair names the position of a pair
\* naming it (the position, when one pair names it), whatever positions the
\* batch repeats, and changes nothing else: no event not named, none of
\* another lane, no soft-deleted one, no lane
C23_ReorderWritesOnlyLivePairs ==
  \A l \in LaneIds, eventOrders \in ReorderBatches :
    \A served \in Servings(Len(eventOrders)) :
      LET r == reorderEvents(lanes, events, l, eventOrders, served, {})
      IN /\ r.lanes = lanes
         /\ r.call.outcome = "ok"
         /\ DOMAIN r.events = DOMAIN events
         /\ \A e \in DOMAIN events :
              IF /\ events[e].memory_lane_id = l
                 /\ ~events[e].deleted_at
                 /\ GivenPositions(eventOrders, e) # {}
              THEN \E p \in GivenPositions(eventOrders, e) :
                     r.events[e] = [events[e] EXCEPT !.order_position = p]
              ELSE r.events[e] = events[e]

\* a reorder has been applied and a lane holds two live events at one position
C23_Witness ==
  /\ last.op = "reorderEvents"
  /\ \E a \in DOMAIN events, b \in DOMAIN events :
       /\ a # b
       /\ events[a].memory_lane_id = events[b].memory_lane_id
       /\ ~events[a].deleted_at /\ ~events[b].deleted_at
       /\ events[a].order_position = events[b].order_position

\* the positions of n siblings are n different values running from 0 or from 1
ContiguousFromZeroOrOne(positions, n) ==
  n = 0 \/ positions = 0..(n - 1) \/ positions = 1..n

\* C24: after any sequence of appends and soft deletes of events and of
\* addEventImage, setPrimaryImage and deleteImage, none failing, the positions
\* of the non-deleted events of every lane and of the images of every event
\* have no duplicates and run from 0 or from 1 without a gap
C24_SiblingsContiguous ==
  /\ \A l \in DOMAIN lanes :
       ContiguousFromZeroOrOne({events[e].order_position : e \in Siblings(events, l)},
                               Cardinality(Siblings(events, l)))
  /\ \A e \in DOMAIN events :
       ContiguousFromZeroOrOne({images[i].order_position : i \in ImagesOf(images, e)},
                               Cardinality(ImagesOf(images, e)))

\* C25: a failed round trip of addEventImage (the maxOrder query, the shift,
\* the insert), of setPrimaryImage (the fetch, the target's update, a sibling's
\* update) or of reorderEvents (any update of the batch) makes the call reject;
\* addEventImage with isPrimary = true whose shift failed inserts no image
C25_RepositoryErrorsPropagate ==
  [][/\ last'.op = "addEventImage"
        => \A e \in DOMAIN events, isPrimary \in BOOLEAN, rpc \in {"ok", "error"},
              fail \in {"none", "maxOrder", "fetch", "insert"} :
             \A failed \in SUBSET ImagesOf(images, e) :
               (/\ fail \in {"maxOrder", "insert"} \/ (isPrimary /\ rpc = "error")
                /\ AddEventImage(e, isPrimary, rpc, fail, failed))
               => (/\ last'.outcome = "error"
                   /\ DOMAIN images' = DOMAIN images)
     /\ last'.op = "setPrimaryImage"
        => \A e \in DOMAIN events, fail \in {"none", "fetch", "update"} :
             \A imageId \in ImagesOf(images, e),
                fetched \in ascendingOrders(images, e),
                failed \in SUBSET ImagesOf(images, e) :
               (/\ fail # "none" \/ failed \ {imageId} # {}
                /\ SetPrimaryImage(imageId, e, fetched, fail, failed))
               => last'.outcome = "error"
     /\ last'.op = "reorderEvents"
        => \A l \in DOMAIN lanes, eventOrders \in ReorderBatches :
             \A served \in Servings(Len(eventOrders)),
                failed \in SUBSET (1..Len(eventOrders)) :
               (failed # {} /\ ReorderEvents(l, eventOrders, served, failed))
               => last'.outcome = "error"]_vars

\* the images of every event but e are the same rows before and after
OtherEventsKept(before, after, e) ==
  \A i \in DOMAIN before :
    before[i].event_id # e => (i \in DOMAIN after /\ after[i] = before[i])

\* C26: setPrimaryImage(imageId, eventId), for any imageId and eventId, and
\* addEventImage(eventId, ...) leave the images of every other event at their
\* positions, and addEventImage creates an image of eventId only
C26_OtherEventsUntouched ==
  [][/\ last'.op = "setPrimaryImage"
        => \A e \in DOMAIN events, imageId \in ImageIds :
             \A fetched \in ascendingOrders(images, e) :
               SetPrimaryImage(imageId, e, fetched, "none", {})
               => OtherEventsKept(images, images', e)
     /\ last'.op = "addEventImage"
        => \A e \in DOMAIN events, isPrimary \in BOOLEAN, rpc \in {"ok", "error"} :
             AddEventImage(e, isPrimary, rpc, "none", {})
             => /\ OtherEventsKept(images, images', e)
                /\ \A i \in DOMAIN images' \ DOMAIN images :
                     images'[i].event_id = e]_vars

\* the mount effect has run and no getUserById / getUserByUsername is in flight
Settled == auth.started /\ auth.pending = {}

\* localStorage's 'currentUser' entry denotes the user signed in
StoredIsCurrent ==
  /\ auth.savedUser # Null
  /\ Val(auth.savedUser).parses
  /\ auth.currentUser = Some(Val(auth.savedUser).id)

\* C27: once the saved-session verification and every login have settled,
\* loading is false and currentUser is non-null exactly when localStorage
\* holds a 'currentUser' entry, both denoting the same user; a failed login
\* leaves currentUser and the stored entry as they were
C27_SessionMatchesStorage ==
  /\ [](Settled => /\ ~auth.loading
                   /\ (auth.currentUser # Null \/ auth.savedUser # Null)
                      => StoredIsCurrent)
  /\ [][\A p \in auth.pending :
          (\/ FinishLogin(p, TRUE)
           \/ FinishLogin(p, FALSE) /\ getUserByUsername(users, p.user) = Null)
          => /\ auth'.currentUser = auth.currentUser
             /\ auth'.savedUser = auth.savedUser]_vars

\* every event id occurs at most once in the batch
IdsOccurOnce(eventOrders) ==
  \A i \in 1..Len(eventOrders), j \in 1..Len(eventOrders) :
    eventOrders[i].id = eventOrders[j].id => i = j

\* C28: from every reachable table, the events reorderEvents(lane, pairs)
\* leaves are the same for every order in which its writes are served when
\* each id occurs at most once; a live event of the lane that the batch names
\* with two different positions ends at different positions under two orders
C28_OrderMattersOnlyForRepeatedIds ==
  \A l \in LaneIds, eventOrders \in ReorderBatches :
    /\ IdsOccurOnce(eventOrders)
       => \A s1 \in Servings(Len(eventOrders)), s2 \in Servings(Len(eventOrders)) :
            reorderEvents(lanes, events, l, eventOrders, s1, {}).events
              = reorderEvents(lanes, events, l, eventOrders, s2, {}).events
    /\ \A e \in LiveEvents(events, l) :
         Cardinality(GivenPositions(eventOrders, e)) > 1
         => \E s1 \in Servings(Len(eventOrders)), s2 \in Servings(Len(eventOrders)) :
              reorderEvents(lanes, events, l, eventOrders, s1, {}).events[e].order_position
                # reorderEvents(lanes, events, l, eventOrders, s2, {}).events[e].order_position

\* a lane with two live events has been reordered
C28_Witness ==
  /\ last.op = "reorderEvents"
  /\ \E l \in DOMAIN lanes : Cardinality(LiveEvents(events, l)) = 2

\* a step that changes the is_public of a lane
VisibilityChanged(l) ==
  l \in DOMAIN lanes /\ l \in DOMAIN lanes' /\ lanes'[l].is_public # lanes[l].is_public

\* C29: a lane's is_public changes only by the toggle or the confirmed dialog
\* on the detail page of its owner; asking for the link of a private lane
\* opens the dialog and writes nothing; after a successful change the page's
\* is_public is the persisted one, after a failed one both are as before
C29_VisibilityOnlyByOwnerAction ==
  [][/\ \A l \in LaneIds :
          VisibilityChanged(l)
          => /\ last'.op \in {"handleToggleVisibility",
                              "handleConfirmMakePublicAndShare"}
             /\ view.laneId = l
             /\ view.viewer = lanes[l].user_id
     /\ (last'.op = "handleCopyShareableLink" /\ ~Val(view.memoryLane).is_public)
        => (view'.showShareConfirmDialog /\ lanes' = lanes)
     /\ (/\ last'.op \in {"handleToggleVisibility", "handleConfirmMakePublicAndShare"}
         /\ last'.outcome = "ok")
        => Val(view'.memoryLane).is_public = lanes'[view.laneId].is_public
     /\ (/\ last'.op \in {"handleToggleVisibility", "handleConfirmMakePublicAndShare"}
         /\ last'.outcome = "error")
        => (lanes' = lanes /\ view'.memoryLane = view.memoryLane)]_vars

\* C30: createEvent stores the order_position its caller supplies, 0 included;
\* only a call that supplies none appends at max + 1, or at 1 in an empty lane
C30_SuppliedPositionStored ==
  [][\A event \in EventInputs(Optional(Positions)) :
       CreateEvent(event, "none")
       => (/\ last'.op = "createEvent"
           /\ events'[Val(last'.ret)].order_position =
                IF event.order_position = Null
                THEN appendPosition(events, event.memory_lane_id)
                ELSE Val(event.order_position))]_vars

====
